---- MODULE Spec2Model ----
(***************************************************************************)
(* Model of km_basic_filter (src/km_basic_filter.c): option parsing,       *)
(* fraction validation, usage, opening of the streams, and the             *)
(* read / classify / write loop over a k-mer abundance matrix.             *)
(*                                                                         *)
(* Text is modelled byte by byte: a string is a sequence of one-character  *)
(* strings.  A double is modelled as the exact rational <<num, den>> that  *)
(* its decimal numeral denotes; for the sample counts reached here the     *)
(* rounded double product and the exact product order every integer tally  *)
(* the same way.  The -v progress message (every 2^20 rows) writes only to *)
(* stderr and is left out.                                                 *)
(***************************************************************************)
EXTENDS Integers, Sequences, FiniteSets, TLC

VARIABLES
  argv,               \* command line: options present, their arguments, operands
  fs,                 \* environment: can the input / output path be opened
  input,              \* bytes of the input stream
  pc,                 \* position in main
  exit_code,          \* -1 while running, else the value returned by main
  min_zeros, min_nz, min_abund,
  min_zero_frac, min_nz_frac,
  min_zero_frac_opt, min_nz_frac_opt,
  help_opt, out_fname,
  matfile, outfile,   \* stream names, "NULL" when not (successfully) opened
  opened, closed,     \* streams fopen'ed / fclose'd by the run
  rest,               \* unread part of the input stream
  line, line_cpy, ch_read,
  n_samples, n_kmers, n_retrieved,
  n_zeros, n_present, enough_zeros, enough_nz,
  streams,            \* what has been written to stdout, stderr and the -o file
  only_f, only_F      \* shadow runs: same command line without -n (resp. -N)
                      \* whenever -f (resp. -F) is supplied

vars == <<argv, fs, input, pc, exit_code, min_zeros, min_nz, min_abund,
          min_zero_frac, min_nz_frac, min_zero_frac_opt, min_nz_frac_opt,
          help_opt, out_fname, matfile, outfile, opened, closed, rest,
          line, line_cpy, ch_read, n_samples, n_kmers, n_retrieved,
          n_zeros, n_present, enough_zeros, enough_nz, streams,
          only_f, only_F>>

----------------------------------------------------------------------------
(* Bounds of the explored inputs *)

MaxLines == 2         \* lines in an input stream
MaxFields == 1        \* abundance fields generated per row

----------------------------------------------------------------------------
(* libc primitives used by main *)

Digits == {"0", "1", "2", "3", "4", "5", "6", "7", "8", "9"}

DigitVal == ("0" :> 0) @@ ("1" :> 1) @@ ("2" :> 2) @@ ("3" :> 3) @@ ("4" :> 4)
         @@ ("5" :> 5) @@ ("6" :> 6) @@ ("7" :> 7) @@ ("8" :> 8) @@ ("9" :> 9)

\* the delimiter set handed to strtok
Delim == {" ", "\t", "\n"}

RECURSIVE DigitsValue(_, _)
DigitsValue(s, acc) ==
  IF s = <<>> \/ Head(s) \notin Digits THEN acc
  ELSE DigitsValue(Tail(s), acc * 10 + DigitVal[Head(s)])

RECURSIVE DigitRun(_)
DigitRun(s) ==
  IF s = <<>> \/ Head(s) \notin Digits THEN 0 ELSE 1 + DigitRun(Tail(s))

Signed(s) == s # <<>> /\ Head(s) \in {"-", "+"}
Unsigned(s) == IF Signed(s) THEN Tail(s) ELSE s

\* strtol(s, NULL, 10): optional sign, then the longest run of digits;
\* 0 when there is no digit
Strtol(s) ==
  LET mag == DigitsValue(Unsigned(s), 0)
  IN IF Signed(s) /\ Head(s) = "-" THEN 0 - mag ELSE mag

RECURSIVE Pow10(_)
Pow10(k) == IF k = 0 THEN 1 ELSE 10 * Pow10(k - 1)

\* atof(s) for a decimal numeral: sign, integer digits, optional '.' and
\* fraction digits.  The value is the rational num/den.
Atof(s) ==
  LET u == Unsigned(s)
      ni == DigitRun(u)
      ip == DigitsValue(u, 0)
      after == SubSeq(u, ni + 1, Len(u))
      hasdot == after # <<>> /\ Head(after) = "."
      fd == IF hasdot THEN Tail(after) ELSE <<>>
      nf == DigitRun(fd)
      num == ip * Pow10(nf) + DigitsValue(fd, 0)
  IN <<IF Signed(s) /\ Head(s) = "-" THEN 0 - num ELSE num, Pow10(nf)>>

\* comparisons of doubles (den > 0)
DLess(x, y) == x[1] * y[2] < y[1] * x[2]
\* k >= x * n for integers k, n
GeProduct(k, x, n) == k * x[2] >= x[1] * n

RECURSIVE TokenLen(_)
TokenLen(s) == IF s = <<>> \/ Head(s) \in Delim THEN 0 ELSE 1 + TokenLen(Tail(s))

\* the successive results of strtok(line, " \t\n"), strtok(NULL, " \t\n"), ...
RECURSIVE Tokens(_)
Tokens(s) ==
  IF s = <<>> THEN <<>>
  ELSE IF Head(s) \in Delim THEN Tokens(Tail(s))
  ELSE LET k == TokenLen(s)
       IN <<SubSeq(s, 1, k)>> \o Tokens(SubSeq(s, k + 1, Len(s)))

RECURSIVE LineLen(_)
LineLen(s) ==
  IF s = <<>> THEN 0
  ELSE IF Head(s) = "\n" THEN 1 ELSE 1 + LineLen(Tail(s))

\* getline: the bytes up to and including the next newline, -1 at end of stream
GetLine(s) ==
  IF s = <<>> THEN [line |-> <<>>, ch_read |-> -1, rest |-> <<>>]
  ELSE LET k == LineLen(s)
       IN [line |-> SubSeq(s, 1, k), ch_read |-> k,
           rest |-> SubSeq(s, k + 1, Len(s))]

----------------------------------------------------------------------------
(* The per-row computation of the loop body *)

\* size_t >= int: the int operand is converted to size_t, so a negative one
\* becomes a value no tally reaches
GeSize(k, m) == IF m < 0 THEN FALSE ELSE k >= m

\* variant: the column count is taken from every row
SampleCountStep_EveryRow(nk, ns) == ns + 1

\* "if(n_kmers == 1){ ++n_samples; }"
SampleCountStep(nk, ns) == IF nk = 1 THEN ns + 1 ELSE ns

\* variant: strict comparison with min_abund
TallyField_Strict(val, ma, t) ==
  IF val = 0 THEN [t EXCEPT !.n_zeros = @ + 1]
  ELSE IF val > ma THEN [t EXCEPT !.n_present = @ + 1]
  ELSE t

\* "if(val == 0){ ++n_zeros; } else if(val >= min_abund){ ++n_present; }"
TallyField(val, ma, t) ==
  IF val = 0 THEN [t EXCEPT !.n_zeros = @ + 1]
  ELSE IF val >= ma THEN [t EXCEPT !.n_present = @ + 1]
  ELSE t

\* the while loop over strtok(NULL, ...): toks are the tokens after the identifier
RECURSIVE ScanFields(_, _, _, _)
ScanFields(toks, nk, ma, t) ==
  IF toks = <<>> THEN t
  ELSE ScanFields(Tail(toks), nk, ma,
         TallyField(Strtol(Head(toks)), ma,
                    [t EXCEPT !.n_samples = SampleCountStep(nk, @)]))

\* variant: the fractional threshold truncated to an integer
EnoughZeros_Truncated(zfo, nz, zf, ns, mz) ==
  (zfo /\ nz >= (zf[1] * ns) \div zf[2]) \/ (~zfo /\ GeSize(nz, mz))

\* variant: the absolute requirement still counts when a fraction is given
EnoughZeros_AbsoluteToo(zfo, nz, zf, ns, mz) ==
  (zfo /\ GeProduct(nz, zf, ns)) \/ GeSize(nz, mz)

EnoughZeros(zfo, nz, zf, ns, mz) ==
  (zfo /\ GeProduct(nz, zf, ns)) \/ (~zfo /\ GeSize(nz, mz))

EnoughNz(nfo, np, nf, ns, mn) ==
  (nfo /\ GeProduct(np, nf, ns)) \/ (~nfo /\ GeSize(np, mn))

\* variant: fputs of the buffer strtok has cut
RetainedText_Tokenised(ln, cpy) == ln

\* the text handed to fputs: the copy taken before strtok cut the line
RetainedText(ln, cpy) == cpy

\* One non-blank row: counters in st, thresholds mz (absence) and mn (presence)
RowStep(st, ln, mz, mn) ==
  LET nk == st.n_kmers + 1
      t == ScanFields(Tail(Tokens(ln)), nk, min_abund,
             [n_samples |-> st.n_samples, n_zeros |-> 0, n_present |-> 0])
      ez == EnoughZeros(min_zero_frac_opt, t.n_zeros, min_zero_frac, t.n_samples, mz)
      en == EnoughNz(min_nz_frac_opt, t.n_present, min_nz_frac, t.n_samples, mn)
  IN [n_samples |-> t.n_samples, n_kmers |-> nk,
      n_zeros |-> t.n_zeros, n_present |-> t.n_present,
      enough_zeros |-> ez, enough_nz |-> en,
      n_retrieved |-> IF ez /\ en THEN st.n_retrieved + 1 ELSE st.n_retrieved,
      out |-> IF ez /\ en THEN st.out \o RetainedText(Head(Tokens(ln)), ln) ELSE st.out]

----------------------------------------------------------------------------
(* Stream bookkeeping *)

\* variant: fclose without the test
CloseUnlessStd_Always(f, std, cl) == cl \cup {f}

\* "if(f != std){ fclose(f); }"
CloseUnlessStd(f, std, cl) == IF f # std THEN cl \cup {f} ELSE cl

Emit(name, text) == streams' = [streams EXCEPT ![name] = @ \o text]

Shadow(sh, code) == [sh EXCEPT !.exit_code = code]

\* "return code;" from main
Return(code) ==
  /\ exit_code' = code
  /\ pc' = "done"

----------------------------------------------------------------------------
(* Inputs: command lines, environments and input streams *)

NoArg == <<>>

Argv(given, a, n, N, f, F, operands) ==
  [given |-> given, a |-> a, n |-> n, N |-> N, f |-> f, F |-> F,
   operands |-> operands]

Given(letters, a, n, N, f, F) ==
  letters \cup {l \in {"a", "n", "N", "f", "F"} :
                   \/ l = "a" /\ a # NoArg
                   \/ l = "n" /\ n # NoArg
                   \/ l = "N" /\ N # NoArg
                   \/ l = "f" /\ f # NoArg
                   \/ l = "F" /\ F # NoArg}

Half == <<"0", ".", "5">>

\* command lines that reach the loop: every pairing of the absolute and the
\* fractional form of both requirements, under several -a
RowArgvs ==
  { Argv(Given({"o"}, a, n, N, f, F), a, n, N, f, F, <<"in.mat">>) :
      a \in {<<"0">>, <<"5">>},
      n \in {NoArg, <<"1">>}, N \in {NoArg, <<"1">>},
      f \in {NoArg, Half}, F \in {NoArg, Half} }
  \cup
  { Argv(Given({"o"}, a, r[1], r[2], r[3], r[4]), a, r[1], r[2], r[3], r[4],
         <<"in.mat">>) :
      a \in {NoArg, <<"-", "1">>},
      r \in { <<<<"1">>, <<"1">>, NoArg, NoArg>>,
              <<<<"0">>, <<"1">>, NoArg, NoArg>>,
              <<<<"-", "1">>, <<"-", "1">>, Half, Half>>,
              <<NoArg, NoArg, <<"0", ".", "0", "1">>, <<"0", ".", "9", "5">>>>,
              <<NoArg, NoArg, <<"0", ".", "9", "9">>, <<"0", ".", "0", "1">>>> } }

FracArgs ==
  { NoArg, Half, <<"0", ".", "0", "1">>, <<"0", ".", "0", "0", "9">>,
    <<"0", ".", "9", "5">>, <<"0", ".", "9", "5", "1">>,
    <<"0", ".", "9", "9">>, <<"0", ".", "9", "9", "1">>, <<"1", ".", "0">> }

\* command lines that exercise start-up: help, unknown option, fractions at
\* and around the bounds, operand count, stdin / stdout
StartArgvs ==
  { Argv(Given(g, NoArg, <<"0">>, <<"0">>, f, F), NoArg, <<"0">>, <<"0">>, f, F, ops) :
      g \in SUBSET {"h", "o", "?"},
      f \in FracArgs, F \in FracArgs,
      ops \in {<<>>, <<"-">>, <<"in.mat">>, <<"in.mat", "b.mat">>} }

Environments == [in_ok : BOOLEAN, out_ok : BOOLEAN]

Values == {<<"0">>, <<"5">>}

RECURSIVE FieldLists(_)
FieldLists(k) ==
  IF k = 0 THEN {<<>>}
  ELSE FieldLists(k - 1) \cup
       { <<" ">> \o v \o fl : v \in Values,
                              fl \in {x \in FieldLists(k - 1) : Len(x) = 2 * (k - 1)} }

\* pieces an input stream is made of: generated rows, rows with tabs, runs of
\* blanks, non-numeric and multi-digit fields, blank lines, and a row without
\* its newline
Chunks ==
  { <<"k">> \o fl \o <<"\n">> : fl \in FieldLists(MaxFields) }
  \cup { <<"k", "\t", "0", " ", " ", "1", "0", "\n">>,
         <<"k", " ", "x", " ", "1", " ", "5", "\n">>,
         <<"k", " ", "5">>,
         <<"\n">>,
         <<" ", "\t", "\n">> }

RECURSIVE Streams(_)
Streams(k) ==
  IF k = 0 THEN {<<>>}
  ELSE LET shorter == Streams(k - 1)
       IN shorter \cup { c \o s : c \in Chunks, s \in shorter }

SmallStreams == { <<>>, <<"k", " ", "0", " ", "5", "\n">>, <<"\n", "k", " ", "0", "\n">> }

NoShadow == [n_samples |-> 0, n_kmers |-> 0, n_retrieved |-> 0, out |-> <<>>,
             exit_code |-> -1]

Start ==
  /\ pc = "getopt"
  /\ exit_code = -1
  /\ min_zeros = 10 /\ min_nz = 10 /\ min_abund = 10
  /\ min_zero_frac = <<5, 10>> /\ min_nz_frac = <<1, 10>>
  /\ min_zero_frac_opt = FALSE /\ min_nz_frac_opt = FALSE
  /\ help_opt = FALSE /\ out_fname = "NULL"
  /\ matfile = "NULL" /\ outfile = "NULL"
  /\ opened = {} /\ closed = {}
  /\ rest = input
  /\ line = <<>> /\ line_cpy = <<>> /\ ch_read = -1
  /\ n_samples = 0 /\ n_kmers = 0 /\ n_retrieved = 0
  /\ n_zeros = 0 /\ n_present = 0
  /\ enough_zeros = FALSE /\ enough_nz = FALSE
  /\ streams = [s \in {"stdout", "stderr", "out.mat"} |-> <<>>]
  /\ only_f = NoShadow /\ only_F = NoShadow

Init ==
  /\ \/ argv \in RowArgvs /\ fs = [in_ok |-> TRUE, out_ok |-> TRUE]
        /\ input \in Streams(MaxLines)
     \/ argv \in StartArgvs /\ fs \in Environments /\ input \in SmallStreams
  /\ Start

----------------------------------------------------------------------------
(* main *)

ConfigVars == <<min_zeros, min_nz, min_abund, min_zero_frac, min_nz_frac,
                min_zero_frac_opt, min_nz_frac_opt, help_opt, out_fname>>
FileVars == <<matfile, outfile, opened, closed>>
LoopVars == <<rest, line, line_cpy, ch_read, n_samples, n_kmers, n_retrieved,
              n_zeros, n_present, enough_zeros, enough_nz>>
InputVars == <<argv, fs, input>>

\* "return code;" in the shadow runs as well
ReturnAll(code) ==
  /\ Return(code)
  /\ only_f' = Shadow(only_f, code)
  /\ only_F' = Shadow(only_F, code)

\* the getopt loop; an unrecognised option makes main return 1
ParseOptions ==
  /\ pc = "getopt"
  /\ IF "?" \in argv.given
     THEN /\ ReturnAll(1)
          /\ UNCHANGED ConfigVars
     ELSE /\ min_abund' = IF "a" \in argv.given THEN Strtol(argv.a) ELSE min_abund
          /\ min_zeros' = IF "n" \in argv.given THEN Strtol(argv.n) ELSE min_zeros
          /\ min_nz' = IF "N" \in argv.given THEN Strtol(argv.N) ELSE min_nz
          /\ out_fname' = IF "o" \in argv.given THEN "out.mat" ELSE out_fname
          /\ min_zero_frac_opt' = ("f" \in argv.given)
          /\ min_zero_frac' = IF "f" \in argv.given THEN Atof(argv.f) ELSE min_zero_frac
          /\ min_nz_frac_opt' = ("F" \in argv.given)
          /\ min_nz_frac' = IF "F" \in argv.given THEN Atof(argv.F) ELSE min_nz_frac
          /\ help_opt' = ("h" \in argv.given)
          /\ pc' = "check_frac"
          /\ UNCHANGED <<exit_code, only_f, only_F>>
  /\ UNCHANGED <<InputVars, FileVars, LoopVars, streams>>

\* variant: the bounds themselves rejected
FracOutOfRange_Open(opt, frac, max) ==
  opt /\ (~DLess(<<1, 100>>, frac) \/ ~DLess(frac, max))

\* "opt && (frac < 0.01 || frac > max)", max being 0.99 or 0.95
FracOutOfRange(opt, frac, max) ==
  opt /\ (DLess(frac, <<1, 100>>) \/ DLess(max, frac))

CheckFractions ==
  /\ pc = "check_frac"
  /\ IF FracOutOfRange(min_zero_frac_opt, min_zero_frac, <<99, 100>>)
     THEN /\ Emit("stderr", <<"[error] -f">>)
          /\ ReturnAll(1)
     ELSE IF FracOutOfRange(min_nz_frac_opt, min_nz_frac, <<95, 100>>)
     THEN /\ Emit("stderr", <<"[error] -F">>)
          /\ ReturnAll(1)
     ELSE /\ pc' = "check_usage"
          /\ UNCHANGED <<exit_code, streams, only_f, only_F>>
  /\ UNCHANGED <<InputVars, ConfigVars, FileVars, LoopVars>>

\* "if(argc-optind != 1 || help_opt)": usage on stdout, return 0
CheckUsage ==
  /\ pc = "check_usage"
  /\ IF Len(argv.operands) # 1 \/ help_opt
     THEN /\ Emit("stdout", <<"Usage">>)
          /\ ReturnAll(0)
     ELSE /\ pc' = "open_in"
          /\ UNCHANGED <<exit_code, streams, only_f, only_F>>
  /\ UNCHANGED <<InputVars, ConfigVars, FileVars, LoopVars>>

OpenInput ==
  /\ pc = "open_in"
  /\ IF argv.operands[1] = "-"
     THEN /\ matfile' = "stdin"
          /\ pc' = "open_out"
          /\ UNCHANGED <<opened, exit_code, streams, only_f, only_F>>
     ELSE IF fs.in_ok
     THEN /\ matfile' = argv.operands[1]
          /\ opened' = opened \cup {argv.operands[1]}
          /\ pc' = "open_out"
          /\ UNCHANGED <<exit_code, streams, only_f, only_F>>
     ELSE /\ Emit("stderr", <<"[error] cannot open file">>)
          /\ ReturnAll(1)
          /\ UNCHANGED <<matfile, opened>>
  /\ UNCHANGED <<InputVars, ConfigVars, outfile, closed, LoopVars>>

OpenOutput ==
  /\ pc = "open_out"
  /\ IF out_fname = "NULL"
     THEN /\ outfile' = "stdout"
          /\ pc' = "getline"
          /\ UNCHANGED <<opened, closed, exit_code, streams, only_f, only_F>>
     ELSE IF fs.out_ok
     THEN /\ outfile' = out_fname
          /\ opened' = opened \cup {out_fname}
          /\ pc' = "getline"
          /\ UNCHANGED <<closed, exit_code, streams, only_f, only_F>>
     ELSE /\ closed' = CloseUnlessStd(matfile, "stdin", closed)
          /\ Emit("stderr", <<"[error] cannot open output file">>)
          /\ ReturnAll(1)
          /\ UNCHANGED <<outfile, opened>>
  /\ UNCHANGED <<InputVars, ConfigVars, matfile, LoopVars>>

\* the getline before the loop
FirstGetLine ==
  /\ pc = "getline"
  /\ LET g == GetLine(rest)
     IN /\ line' = g.line
        /\ ch_read' = g.ch_read
        /\ rest' = g.rest
  /\ pc' = "while"
  /\ UNCHANGED <<InputVars, ConfigVars, FileVars, exit_code, streams, only_f, only_F,
                 line_cpy, n_samples, n_kmers, n_retrieved,
                 n_zeros, n_present, enough_zeros, enough_nz>>

\* "while(ch_read >= 0)"
LoopTest ==
  /\ pc = "while"
  /\ pc' = IF ch_read >= 0 THEN "body" ELSE "summary"
  /\ UNCHANGED <<InputVars, ConfigVars, FileVars, LoopVars, exit_code, streams,
                 only_f, only_F>>

\* loop body, strtok finds no token: "continue" (no getline is reached)
SkipEmptyLine ==
  /\ pc = "body"
  /\ Tokens(line) = <<>>
  /\ line_cpy' = line
  /\ pc' = "while"
  /\ UNCHANGED <<InputVars, ConfigVars, FileVars, exit_code, streams, only_f, only_F,
                 rest, line, ch_read, n_samples, n_kmers, n_retrieved,
                 n_zeros, n_present, enough_zeros, enough_nz>>

\* the absolute thresholds of the run that was not given -n (resp. -N)
ShadowZeros == IF min_zero_frac_opt THEN 10 ELSE min_zeros
ShadowNz == IF min_nz_frac_opt THEN 10 ELSE min_nz

\* loop body for a row: copy, tokenise, tally, classify, write, next getline
ProcessRow ==
  /\ pc = "body"
  /\ Tokens(line) # <<>>
  /\ line_cpy' = line
  /\ LET r == RowStep([n_samples |-> n_samples, n_kmers |-> n_kmers,
                       n_retrieved |-> n_retrieved, out |-> streams[outfile]],
                      line, min_zeros, min_nz)
         g == GetLine(rest)
     IN /\ n_samples' = r.n_samples
        /\ n_kmers' = r.n_kmers
        /\ n_zeros' = r.n_zeros
        /\ n_present' = r.n_present
        /\ enough_zeros' = r.enough_zeros
        /\ enough_nz' = r.enough_nz
        /\ n_retrieved' = r.n_retrieved
        /\ streams' = [streams EXCEPT ![outfile] = r.out]
        /\ line' = g.line
        /\ ch_read' = g.ch_read
        /\ rest' = g.rest
  /\ LET q == RowStep(only_f, line, ShadowZeros, min_nz)
     IN only_f' = [only_f EXCEPT !.n_samples = q.n_samples, !.n_kmers = q.n_kmers,
                                 !.n_retrieved = q.n_retrieved, !.out = q.out]
  /\ LET q == RowStep(only_F, line, min_zeros, ShadowNz)
     IN only_F' = [only_F EXCEPT !.n_samples = q.n_samples, !.n_kmers = q.n_kmers,
                                 !.n_retrieved = q.n_retrieved, !.out = q.out]
  /\ pc' = "while"
  /\ UNCHANGED <<InputVars, ConfigVars, FileVars, exit_code>>

\* after the loop: the summary on stderr, the streams closed, return 0
Finish ==
  /\ pc = "summary"
  /\ Emit("stderr", <<"[info] summary">>)
  /\ closed' = CloseUnlessStd(outfile, "stdout", CloseUnlessStd(matfile, "stdin", closed))
  /\ ReturnAll(0)
  /\ UNCHANGED <<InputVars, ConfigVars, matfile, outfile, opened, LoopVars>>

Next ==
  \/ ParseOptions
  \/ CheckFractions
  \/ CheckUsage
  \/ OpenInput
  \/ OpenOutput
  \/ FirstGetLine
  \/ LoopTest
  \/ SkipEmptyLine
  \/ ProcessRow
  \/ Finish

Spec == Init /\ [][Next]_vars

\* a smaller choice of command lines for the runs checked to completion
FairArgvs ==
  { Argv(Given(g, NoArg, <<"0">>, <<"0">>, f, NoArg), NoArg, <<"0">>, <<"0">>, f, NoArg, ops) :
      g \in SUBSET {"h", "o", "?"},
      f \in {NoArg, <<"1", ".", "0">>},
      ops \in {<<"-">>, <<"in.mat">>} }

FairInit ==
  /\ argv \in FairArgvs /\ fs \in Environments /\ input \in SmallStreams
  /\ Start

\* the process is scheduled until main returns
FairSpec == FairInit /\ [][Next]_vars /\ WF_vars(Next)

----------------------------------------------------------------------------
(* What the specification says of a run, stated on the input itself *)

RECURSIVE SplitLines(_)
SplitLines(s) ==
  IF s = <<>> THEN <<>>
  ELSE LET g == GetLine(s) IN <<g.line>> \o SplitLines(g.rest)

InputLines == SplitLines(input)

\* lines whose loop iteration is complete
NProcessed ==
  Len(InputLines) - Len(SplitLines(rest)) - (IF ch_read >= 0 THEN 1 ELSE 0)

IsBlank(l) == Tokens(l) = <<>>

FieldValues(l) ==
  LET t == Tail(Tokens(l)) IN [i \in 1..Len(t) |-> Strtol(t[i])]

NumFields(l) == Len(FieldValues(l))

CountZero(l) == Cardinality({i \in 1..NumFields(l) : FieldValues(l)[i] = 0})

CountAtLeast(l, a) == Cardinality({i \in 1..NumFields(l) : FieldValues(l)[i] >= a})

CountNonZeroAtLeast(l, a) ==
  Cardinality({i \in 1..NumFields(l) :
                 FieldValues(l)[i] # 0 /\ FieldValues(l)[i] >= a})

\* index of the first line of ls, after the first `from` ones, that satisfies P; 0 if none
FirstIndex(ls, from, P(_)) ==
  LET hits == {i \in (from + 1)..Len(ls) : P(ls[i])}
  IN IF hits = {} THEN 0 ELSE CHOOSE i \in hits : \A j \in hits : i <= j

IsRow(l) == ~IsBlank(l)
HasFields(l) == IsRow(l) /\ NumFields(l) >= 1

\* field count of the first non-blank line of the input
FirstRowFields ==
  LET i == FirstIndex(InputLines, 0, IsRow)
  IN IF i = 0 THEN 0 ELSE NumFields(InputLines[i])

\* tally >= requirement, the fraction taken of sc samples without rounding
Meets(tally, fracGiven, frac, count, sc) ==
  IF fracGiven THEN tally * frac[2] >= frac[1] * sc ELSE tally >= count

Passes(l) ==
  /\ Meets(CountZero(l), min_zero_frac_opt, min_zero_frac, min_zeros, FirstRowFields)
  /\ Meets(CountNonZeroAtLeast(l, min_abund), min_nz_frac_opt, min_nz_frac, min_nz,
           FirstRowFields)

RECURSIVE Flatten(_)
Flatten(ls) == IF ls = <<>> THEN <<>> ELSE Head(ls) \o Flatten(Tail(ls))

KeepRow(l) == IsRow(l) /\ Passes(l)

ExpectedOutput == Flatten(SelectSeq(SubSeq(InputLines, 1, NProcessed), KeepRow))

DataOut == IF outfile = "NULL" THEN <<>> ELSE streams[outfile]

Said(msg) == \E i \in 1..Len(streams["stderr"]) : streams["stderr"][i] = msg

----------------------------------------------------------------------------
(* Claims *)

\* C1: the data output always is the concatenation, in input order, of the
\* processed input lines that are rows passing classification, each once and
\* byte for byte as read, terminator included; nothing else is in the data
\* output, and the stream that is not the data output stays empty.
C1_DataOutputIsPassingLines ==
  /\ DataOut = (IF outfile = "NULL" THEN <<>> ELSE ExpectedOutput)
  /\ outfile # "out.mat" => streams["out.mat"] = <<>>
  /\ outfile # "NULL" /\ outfile # "stdout" => streams["stdout"] = <<>>
  /\ pc = "done" /\ exit_code = 0 /\ outfile # "NULL" =>
       /\ NProcessed = Len(InputLines)
       /\ n_retrieved = Len(SelectSeq(InputLines, KeepRow))

\* a completed run that kept a row without its newline and dropped another
C1_Witness ==
  /\ pc = "done" /\ exit_code = 0
  /\ n_kmers = 2 /\ n_retrieved = 1
  /\ DataOut = <<"k", " ", "5">>

C4_RunCompletes ==
  (pc = "getline") ~>
    (pc = "done" /\ exit_code = 0 /\ streams["stderr"] = <<"[info] summary">>)

\* C5: a run given -h (and no unrecognised option) ends with the usage text
\* printed, no row processed, no file opened and exit code 0.
C5_HelpPrintsUsage ==
  (pc = "done" /\ "h" \in argv.given /\ "?" \notin argv.given) =>
    /\ exit_code = 0
    /\ streams["stdout"] = <<"Usage">>
    /\ opened = {} /\ matfile = "NULL" /\ outfile = "NULL"
    /\ n_kmers = 0 /\ rest = input

InUnit(frac, max) ==
  100 * frac[1] >= frac[2] /\ frac[1] * max[2] <= max[1] * frac[2]

\* C6: once the fractions are checked, -f is rejected iff its value is
\* outside [0.01, 0.99] and, -f being accepted, -F is rejected iff its value
\* is outside [0.01, 0.95]; a rejecting run has returned 1 with no stream
\* opened, no byte read and nothing in the data output.
C6_FractionRange ==
  (pc \notin {"getopt", "check_frac"} /\ "?" \notin argv.given) =>
    /\ "f" \in argv.given =>
         (Said("[error] -f") <=> ~InUnit(Atof(argv.f), <<99, 100>>))
    /\ "F" \in argv.given /\ ~Said("[error] -f") =>
         (Said("[error] -F") <=> ~InUnit(Atof(argv.F), <<95, 100>>))
    /\ Said("[error] -f") \/ Said("[error] -F") =>
         /\ pc = "done" /\ exit_code = 1
         /\ opened = {} /\ matfile = "NULL" /\ outfile = "NULL"
         /\ rest = input /\ n_kmers = 0
         /\ streams["stdout"] = <<>> /\ streams["out.mat"] = <<>>

\* -f 0.99 accepted and -F 0.951 rejected
C6_Witness ==
  /\ argv.f = <<"0", ".", "9", "9">>
  /\ argv.F = <<"0", ".", "9", "5", "1">>
  /\ Said("[error] -F")

MainRun ==
  [n_samples |-> n_samples, n_kmers |-> n_kmers, n_retrieved |-> n_retrieved,
   out |-> DataOut, exit_code |-> exit_code]

\* C7: the run given -n together with -f has, at every point, the sample
\* count, the counters, the data output and the exit code of the run given
\* the same command line without -n; likewise for -N and -F.
C7_AbsoluteIgnoredWithFraction ==
  /\ only_f = MainRun
  /\ only_F = MainRun

\* a completed run given -n 1 and -f 0.5 whose last row had one zero and
\* was dropped for its zeros
C7_Witness ==
  /\ pc = "done" /\ exit_code = 0
  /\ {"n", "f"} \subseteq argv.given /\ min_zeros = 1
  /\ n_kmers = 2
  /\ n_zeros = 1 /\ ~enough_zeros /\ enough_nz

\* lines processed so far
Processed == SubSeq(InputLines, 1, NProcessed)

\* C8 as stated: sample_count is the field count of the first processed row
\* that has an abundance token (0 while there is none)
C8_SetByFirstRowWithFields ==
  LET i == FirstIndex(Processed, 0, HasFields)
  IN n_samples = IF i = 0 THEN 0 ELSE NumFields(Processed[i])

\* C8 amended: sample_count is 0 until the first non-blank row is processed
\* and from then on is the number of abundance fields of that row (0 when the
\* row is an identifier only), whatever the field counts of later rows.
C8_SetByFirstRow ==
  n_samples = IF n_kmers = 0 THEN 0 ELSE FirstRowFields

\* an identifier-only first row followed by a row with fields
C8_Witness ==
  /\ n_kmers = 2
  /\ NumFields(InputLines[1]) = 0
  /\ NumFields(InputLines[2]) >= 1
  /\ n_samples = 0

\* C9: an iteration on a line without token changes neither sample_count
\* nor the counters nor the output, and when such a line comes before any
\* row, the first non-blank line after it comes to fix sample_count.
C9_BlankLineThenFirstRow ==
  /\ [][ (pc = "body" /\ IsBlank(line)) =>
           UNCHANGED <<n_samples, n_kmers, n_retrieved, streams>> ]_vars
  /\ (pc = "body" /\ IsBlank(line) /\ n_kmers = 0
        /\ FirstIndex(InputLines, 0, IsRow) # 0)
       ~> (n_kmers >= 1 /\ n_samples = FirstRowFields)

\* C10: when main has returned, every stream the run opened is closed, and at
\* no time has the run closed stdin or stdout.
C10_StreamsReleased ==
  /\ pc = "done" => opened \subseteq closed
  /\ closed \subseteq opened

\* the output could not be opened after the input file was
C10_Witness ==
  /\ pc = "done" /\ exit_code = 1
  /\ Said("[error] cannot open output file")
  /\ opened = {"in.mat"} /\ closed = {"in.mat"}

====
